---- MODULE Spec2Model ----
(***************************************************************************)
(* Stable-fluids example: the per-frame stage scheduler (loop), the        *)
(* double-buffered textures and their bind groups, the touch handlers and  *)
(* the per-cell stage kernels of src/examples/StableFluids/StableFluids.tsx*)
(*                                                                         *)
(* Two levels are carried by the same stage actions.  Every dispatch is    *)
(* logged in `trace` with the textures it reads and writes, and `prov`     *)
(* remembers for each texture which stage wrote it last and how many       *)
(* frames ago.  When `concrete` holds the texel values themselves are      *)
(* carried in `field` (fixed point, Unit steps per 1.0) and the number of  *)
(* frames is bounded; otherwise the frame loop runs for ever and `field`   *)
(* is left alone.                                                          *)
(*                                                                         *)
(* Spec starts from the constructed scene; SpecScene starts from the       *)
(* mounted component and goes through createScene as the effect of         *)
(* src/useWebGPU.ts runs it; SpecField, SpecBrush and SpecProject carry    *)
(* texel values; SpecTwin runs two scenes on the same brush states.        *)
(* SpecHold runs the frames on a pointer held still, SpecGrid the          *)
(* diffusion loop on grids of several sizes, SpecRest the fluid at rest,   *)
(* and SpecHook the effect of src/useWebGPU.ts over several of its runs.   *)
(***************************************************************************)
EXTENDS Integers, Sequences, FiniteSets, TLC

VARIABLES
    pc,            \* position of loop(): "idle" between two animation frames
    iter,          \* the counter i of the two Jacobi for-loops
    velIdx,        \* velBuffer.index
    inkIdx,        \* inkBuffer.index
    pIdx,          \* pressureBuffer.index
    brushInfo,     \* brushInfo.current
    showField,     \* showField.current
    enableBoundary,\* enableBoundary.current
    canvasSize,    \* canvasSize.current
    jacobiIter,    \* params.jacobiIter
    simParams,     \* contents of simParamBuffer
    brushParams,   \* contents of brushParamBuffer
    trace,         \* dispatches of the frame in progress (or just finished)
    prov,          \* texture -> stage that wrote it last and its age in frames
    frameDown,     \* the isDown value the frame in progress branched on
    velIdxIn,      \* velBuffer.index when the frame in progress started
    frames,        \* frames completed (saturates at FrameCap)
    concrete,      \* TRUE when texel values are carried in `field`
    field,         \* texture -> cell -> texel (x, y channels)
    effect,        \* position of the useWebGPU effect and of createScene
    animationFrameId, \* animationFrameId.current (0 stands for null)
    twin,          \* a second run of the scene, fed the same brush states
    hook           \* the effect runs of one useWebGPU instance

vars == <<pc, iter, velIdx, inkIdx, pIdx, brushInfo, showField, enableBoundary,
          canvasSize, jacobiIter, simParams, brushParams, trace, prov,
          frameDown, velIdxIn, frames, concrete, field, effect,
          animationFrameId, twin, hook>>

\* what the frame loop and the touch handlers leave alone
hostVars == <<effect, animationFrameId, twin, hook>>

(***************************************************************************)
(* Bounds of the model.                                                    *)
(***************************************************************************)
\* fixed-point steps per 1.0 of a texel value or a coordinate
Unit == 100
\* frames a run with texel values goes through
MaxFrames == 3
\* ages of a texture's last write are counted up to this many frames
AgeCap == 2
\* canvas size in pixels handed to createScene
CanvasWidth == 16
CanvasHeight == 16
\* runs of the effect of one useWebGPU instance
MaxRuns == 3
\* identifiers requestAnimationFrame hands out
MaxIds == 5

\* iteration counts params.jacobiIter is drawn from (the source sets 10)
JacobiIterValues == {0, 1, 2, 10}
\* touch locations (pixels, already multiplied by the pixel ratio)
TouchPoints == {<<7, 8>>, <<15, 0>>}
\* the touch location of the runs that carry texel values
FieldTouchPoints == {<<7, 8>>}
DisplayModes == {"ink", "velocity", "image"}

(***************************************************************************)
(* Arithmetic helpers.                                                     *)
(***************************************************************************)
Min(a, b) == IF a <= b THEN a ELSE b
Max(a, b) == IF a >= b THEN a ELSE b
\* round toward zero, as a float-to-int conversion does
Trunc(n, d) == IF n >= 0 THEN n \div d ELSE -((-n) \div d)
Xor(a, b) == (a + b) % 2

(***************************************************************************)
(* Program constants (params.ts part of StableFluids.tsx).                 *)
(* SIMULATION_QUALITY = 0.2 = 1 / QualityDen, FORCE_SCALE = 0.6,           *)
(* INK_AMOUNT = 0.02, dt = 0.6.                                            *)
(***************************************************************************)
QualityDen == 5
ForceScaleTenths == 6
InkAmountHundredths == 2
DtTenths == 6

(***************************************************************************)
(* createScene: grid size and textures.                                    *)
(***************************************************************************)
simWidth == Max(1, canvasSize.width \div QualityDen)
simHeight == Max(1, canvasSize.height \div QualityDen)

velTex == <<"velocity0", "velocity1">>
inkTex == <<"density0", "density1">>
pressureTex == <<"pressure0", "pressure1">>
newInkTex == "addedInk"
forceTex == "force"
divergenceTex == "divergence"
backgroundTexture == "background"

Textures == {velTex[1], velTex[2], inkTex[1], inkTex[2], pressureTex[1],
             pressureTex[2], newInkTex, forceTex, divergenceTex,
             backgroundTexture}

\* the textures of the simulation grid
SimTextures == Textures \ {backgroundTexture}

(***************************************************************************)
(* DoubleBuffer.                                                           *)
(***************************************************************************)
swap_NoToggle(index) == index
swap_Increments(index) == index + 1

swap(index) == Xor(index, 1)
setCurrent(index) == index

(***************************************************************************)
(* Bind groups, indexed as the arrays createScene builds.                  *)
(***************************************************************************)
brushBindGroup == [forceDst |-> forceTex, inkDst |-> newInkTex]

addInkBindGroups(i) ==
    [src |-> inkTex[i + 1], add |-> newInkTex, dst |-> inkTex[(1 - i) + 1]]

addForceBindGroups(i) ==
    [src |-> velTex[i + 1], force |-> forceTex, dst |-> velTex[(1 - i) + 1]]

advectBindGroups_InPlace(i) ==
    [src |-> velTex[(1 - i) + 1], dst |-> velTex[(1 - i) + 1]]

advectBindGroups(i) ==
    [src |-> velTex[(1 - i) + 1], dst |-> velTex[i + 1]]

diffusionBindGroups(i) ==
    [in |-> velTex[i + 1], out |-> velTex[(1 - i) + 1]]

divergenceBindGroups_Other(i) ==
    [vel |-> velTex[(1 - i) + 1], div |-> divergenceTex]

divergenceBindGroups(i) ==
    [vel |-> velTex[i + 1], div |-> divergenceTex]

pressureBindGroups(i) ==
    [x |-> pressureTex[i + 1], b |-> divergenceTex,
     out |-> pressureTex[(1 - i) + 1]]

projectBindGroups(v, p) ==
    [vel |-> velTex[v + 1], p |-> pressureTex[p + 1],
     out |-> velTex[(1 - v) + 1]]

advectInkBindGroups_OtherVel(v, k) ==
    [vel |-> velTex[(1 - v) + 1], src |-> inkTex[k + 1],
     dst |-> inkTex[(1 - k) + 1]]

advectInkBindGroups(v, k) ==
    [vel |-> velTex[v + 1], src |-> inkTex[k + 1],
     dst |-> inkTex[(1 - k) + 1]]

renderBindGroups_OtherInk(mode, idx) ==
    IF mode = "velocity"
    THEN [result |-> velTex[idx + 1], background |-> backgroundTexture]
    ELSE [result |-> inkTex[(1 - idx) + 1], background |-> backgroundTexture]

renderBindGroups(mode, idx) ==
    IF mode = "velocity"
    THEN [result |-> velTex[idx + 1], background |-> backgroundTexture]
    ELSE [result |-> inkTex[idx + 1], background |-> backgroundTexture]

\* the bindings a layout declares as write-only storage textures
WriteBindings == {"forceDst", "inkDst", "dst", "out", "div"}

(***************************************************************************)
(* Texel arithmetic.  A texel is <<x, y>> in Unit steps; the z and w       *)
(* channels are never read back by any kernel.  Products are rounded       *)
(* toward zero to the next step, as storing into rgba16float rounds.       *)
(***************************************************************************)
Cells == (0 .. simWidth - 1) \X (0 .. simHeight - 1)
textureDimensions == <<simWidth, simHeight>>
ZeroTexel == <<0, 0>>
ZeroField == [c \in Cells |-> ZeroTexel]

\* std.clamp(e, low, high) = min(max(e, low), high)
clamp(e, low, high) == Min(Max(e, low), high)

\* textureLoad at integer coordinates inside the texture
textureLoad(tex, coords) == tex[coords]

\* one channel of a bilinear fetch at texel-space position <<px, py>> (Unit
\* steps, texel centres at multiples of Unit), addressMode clamp-to-edge
BilinearChannel(tex, ch, px, py) ==
    LET x0 == px \div Unit
        y0 == py \div Unit
        fx == px - Unit * x0
        fy == py - Unit * y0
        cx0 == clamp(x0, 0, simWidth - 1)
        cx1 == clamp(x0 + 1, 0, simWidth - 1)
        cy0 == clamp(y0, 0, simHeight - 1)
        cy1 == clamp(y0 + 1, 0, simHeight - 1)
    IN Trunc((Unit - fx) * (Unit - fy) * tex[<<cx0, cy0>>][ch]
             + fx * (Unit - fy) * tex[<<cx1, cy0>>][ch]
             + (Unit - fx) * fy * tex[<<cx0, cy1>>][ch]
             + fx * fy * tex[<<cx1, cy1>>][ch], Unit * Unit)

\* textureSampleLevel(tex, linSampler, uv, 0): uv is a pair of fractions
\* [num, den]; the sampler maps uv to the texel-space position uv*dim - 0.5
textureSampleLevel(tex, uv) ==
    LET px == (uv[1].num * simWidth * Unit) \div uv[1].den - (Unit \div 2)
        py == (uv[2].num * simHeight * Unit) \div uv[2].den - (Unit \div 2)
    IN <<BilinearChannel(tex, 1, px, py), BilinearChannel(tex, 2, px, py)>>

\* oldCoords = coords - dt * vel, in Unit steps
BackTrace(coords, vel) ==
    <<Unit * coords[1] - Trunc(DtTenths * vel[1], 10),
      Unit * coords[2] - Trunc(DtTenths * vel[2], 10)>>

ClampCoords_None(oldCoords) == oldCoords

\* clamp(oldCoords, -0.5, dims - 0.5)
ClampCoords(oldCoords) ==
    <<clamp(oldCoords[1], -(Unit \div 2), Unit * simWidth - (Unit \div 2)),
      clamp(oldCoords[2], -(Unit \div 2), Unit * simHeight - (Unit \div 2))>>

\* (clamped + 0.5) / dims, as fractions
NormalizeCoords(clamped) ==
    <<[num |-> clamped[1] + (Unit \div 2), den |-> Unit * simWidth],
      [num |-> clamped[2] + (Unit \div 2), den |-> Unit * simHeight]>>

(***************************************************************************)
(* Stage kernels (kernels.ts part of StableFluids.tsx), one texel each.    *)
(***************************************************************************)
\* neighbours taken modulo the grid size
getNeighbors_Wraps(coords, bounds) ==
    LET res == <<<<-1, 0>>, <<0, -1>>, <<1, 0>>, <<0, 1>>>>
    IN [i \in 1 .. 4 |->
          <<(coords[1] + res[i][1] + bounds[1]) % bounds[1],
            (coords[2] + res[i][2] + bounds[2]) % bounds[2]>>]

getNeighbors(coords, bounds) ==
    LET res == <<<<-1, 0>>, <<0, -1>>, <<1, 0>>, <<0, 1>>>>
    IN [i \in 1 .. 4 |->
          <<clamp(coords[1] + res[i][1], 0, bounds[1] - 1),
            clamp(coords[2] + res[i][2], 0, bounds[2] - 1)>>]

\* distSq and radiusSq of brushFn, both in Unit * Unit steps
BrushDistSq(coords, params) ==
    LET dx == coords[1] - params.pos[1]
        dy == coords[2] - params.pos[2]
    IN (dx * dx + dy * dy) * Unit * Unit

BrushRadiusSq(params) == params.radius * params.radius

BrushWeight_NoCutoff(coords, params) ==
    [num |-> BrushRadiusSq(params) - BrushDistSq(coords, params),
     den |-> BrushRadiusSq(params)]

\* the weight brushFn applies at coords, as a fraction; 0 when the cell
\* fails the distSq < radiusSq test and force and ink keep their 0.0
BrushWeight(coords, params) ==
    LET distSq == BrushDistSq(coords, params)
        radiusSq == BrushRadiusSq(params)
    IN IF distSq < radiusSq
       THEN [num |-> Max(0, radiusSq - distSq), den |-> radiusSq]
       ELSE [num |-> 0, den |-> 1]

\* params.delta is in 1/QualityDen cells
brushFn(coords, params) ==
    LET weight == BrushWeight(coords, params)
    IN [force |-> <<Trunc(Unit * params.forceScale * weight.num * params.delta[1],
                          10 * QualityDen * weight.den),
                    Trunc(Unit * params.forceScale * weight.num * params.delta[2],
                          10 * QualityDen * weight.den)>>,
        ink |-> <<Trunc(Unit * params.inkAmount * weight.num, 100 * weight.den),
                  0>>]

addForcesFn(coords, src, force, sp) ==
    LET u == textureLoad(src, coords)
        f == textureLoad(force, coords)
    IN <<u[1] + Trunc(sp.dt * f[1], 10), u[2] + Trunc(sp.dt * f[2], 10)>>

addInkFn(c, src, add) ==
    LET a == textureLoad(add, c)[1]
        s == textureLoad(src, c)[1]
    IN <<a + s, 0>>

AdvectIsBorder_Strict(coords) ==
    \/ coords[1] < 1
    \/ coords[2] < 1
    \/ coords[1] > textureDimensions[1] - 1
    \/ coords[2] > textureDimensions[2] - 1

\* any(coords < 1 or coords >= dims - 1)
AdvectIsBorder(coords) ==
    \/ coords[1] < 1
    \/ coords[2] < 1
    \/ coords[1] >= textureDimensions[1] - 1
    \/ coords[2] >= textureDimensions[2] - 1

advectFn(coords, src, sp) ==
    LET oldVel == textureLoad(src, coords)
        oldCoordsClamped == ClampCoords(BackTrace(coords, oldVel))
        velAtOldCoords ==
            textureSampleLevel(src, NormalizeCoords(oldCoordsClamped))
    IN IF AdvectIsBorder(coords) /\ sp.enableBoundary = 1
       THEN ZeroTexel
       ELSE velAtOldCoords

\* alpha = viscosity * dt = 3 / 500000; beta = 1 / (4 + alpha)
DiffuseChannel(sum, v) == Trunc(500000 * sum + 3 * v, 2000003)

diffusionFn(coords, in) ==
    LET inputValue == textureLoad(in, coords)
        neighbors == getNeighbors(coords, textureDimensions)
        left == textureLoad(in, neighbors[1])
        up == textureLoad(in, neighbors[2])
        right == textureLoad(in, neighbors[3])
        down == textureLoad(in, neighbors[4])
    IN <<DiffuseChannel(left[1] + right[1] + up[1] + down[1], inputValue[1]),
         DiffuseChannel(left[2] + right[2] + up[2] + down[2], inputValue[2])>>

divergenceFn(coords, vel) ==
    LET neighbors == getNeighbors(coords, textureDimensions)
        left == textureLoad(vel, neighbors[1])
        up == textureLoad(vel, neighbors[2])
        right == textureLoad(vel, neighbors[3])
        down == textureLoad(vel, neighbors[4])
    IN <<Trunc(right[1] - left[1] + (down[2] - up[2]), 2), 0>>

pressureFn(coords, x, b) ==
    LET neighbors == getNeighbors(coords, textureDimensions)
        left == textureLoad(x, neighbors[1])
        up == textureLoad(x, neighbors[2])
        right == textureLoad(x, neighbors[3])
        down == textureLoad(x, neighbors[4])
        div == textureLoad(b, coords)[1]
    IN <<Trunc(left[1] + right[1] + up[1] + down[1] - div, 4), 0>>

projectFn(coords, vel, p) ==
    LET v == textureLoad(vel, coords)
        neighbors == getNeighbors(coords, textureDimensions)
        left == textureLoad(p, neighbors[1])
        up == textureLoad(p, neighbors[2])
        right == textureLoad(p, neighbors[3])
        down == textureLoad(p, neighbors[4])
    IN <<v[1] - Trunc(right[1] - left[1], 2), v[2] - Trunc(down[1] - up[1], 2)>>

advectScalarFn_SamplesVel(coords, vel, src, sp) ==
    LET v == textureLoad(vel, coords)
        clamped == ClampCoords(BackTrace(coords, v))
    IN textureSampleLevel(vel, NormalizeCoords(clamped))

advectScalarFn(coords, vel, src, sp) ==
    LET v == textureLoad(vel, coords)
        clamped == ClampCoords(BackTrace(coords, v))
    IN textureSampleLevel(src, NormalizeCoords(clamped))

(***************************************************************************)
(* Touch handlers of the component.  Touch locations are pixels; a brush   *)
(* position is kept in 1/QualityDen cells, the unit in which               *)
(* size.width * SIMULATION_QUALITY - 1 is a whole number.                  *)
(***************************************************************************)
NoSize == [width |-> -1, height |-> -1]

realToCanvas(x, y) ==
    LET size == canvasSize
        gx == x \div QualityDen
        gy == (size.height - y) \div QualityDen
        cx == Max(0, Min(size.width - QualityDen, QualityDen * gx))
        cy == Max(0, Min(size.height - QualityDen, QualityDen * gy))
    IN IF size = NoSize THEN <<0, 0>> ELSE <<cx, cy>>

handleStart(t) ==
    /\ pc = "idle"
    /\ brushInfo' = [pos |-> realToCanvas(t[1], t[2]), delta |-> <<0, 0>>,
                     isDown |-> TRUE]
    /\ UNCHANGED <<pc, iter, velIdx, inkIdx, pIdx, showField, enableBoundary,
                   canvasSize, jacobiIter, simParams, brushParams, trace, prov,
                   frameDown, velIdxIn, frames, concrete, field,
                   hostVars>>

handleMove_MidFrame(t) ==
    /\ pc \in {"idle", "brush"}
    /\ LET g == realToCanvas(t[1], t[2])
           dx == g[1] - brushInfo.pos[1]
           dy == g[2] - brushInfo.pos[2]
       IN brushInfo' = [pos |-> g, delta |-> <<dx, dy>>, isDown |-> TRUE]
    /\ UNCHANGED <<pc, iter, velIdx, inkIdx, pIdx, showField, enableBoundary,
                   canvasSize, jacobiIter, simParams, brushParams, trace, prov,
                   frameDown, velIdxIn, frames, concrete, field, hostVars>>

handleMove(t) ==
    /\ pc = "idle"
    /\ LET g == realToCanvas(t[1], t[2])
           dx == g[1] - brushInfo.pos[1]
           dy == g[2] - brushInfo.pos[2]
       IN brushInfo' = [pos |-> g, delta |-> <<dx, dy>>, isDown |-> TRUE]
    /\ UNCHANGED <<pc, iter, velIdx, inkIdx, pIdx, showField, enableBoundary,
                   canvasSize, jacobiIter, simParams, brushParams, trace, prov,
                   frameDown, velIdxIn, frames, concrete, field,
                   hostVars>>

handleEnd ==
    /\ pc = "idle"
    /\ brushInfo' = [pos |-> <<0, 0>>, delta |-> <<0, 0>>, isDown |-> FALSE]
    /\ UNCHANGED <<pc, iter, velIdx, inkIdx, pIdx, showField, enableBoundary,
                   canvasSize, jacobiIter, simParams, brushParams, trace, prov,
                   frameDown, velIdxIn, frames, concrete, field,
                   hostVars>>

handleShowField(f) ==
    /\ pc = "idle"
    /\ showField' = f
    /\ UNCHANGED <<pc, iter, velIdx, inkIdx, pIdx, brushInfo, enableBoundary,
                   canvasSize, jacobiIter, simParams, brushParams, trace, prov,
                   frameDown, velIdxIn, frames, concrete, field,
                   hostVars>>

handleBoundaryToggle(v) ==
    /\ pc = "idle"
    /\ enableBoundary' = v
    /\ UNCHANGED <<pc, iter, velIdx, inkIdx, pIdx, brushInfo, showField,
                   canvasSize, jacobiIter, simParams, brushParams, trace, prov,
                   frameDown, velIdxIn, frames, concrete, field,
                   hostVars>>

(***************************************************************************)
(* loop(): one action per dispatch.  Log(stage, bg) appends the dispatch   *)
(* to the trace with the textures the bind group binds for reading and for *)
(* writing, where each texture read came from, and the three buffer        *)
(* indices at the dispatch; Wrote marks the written textures.              *)
(***************************************************************************)
Reads(bg) == {bg[b] : b \in (DOMAIN bg) \ WriteBindings}
Writes(bg) == {bg[b] : b \in (DOMAIN bg) \cap WriteBindings}

Log(stage, bg) ==
    Append(trace, [stage |-> stage, reads |-> Reads(bg), writes |-> Writes(bg),
                   from |-> [t \in Reads(bg) |-> prov[t]],
                   vel |-> velIdx, ink |-> inkIdx, p |-> pIdx])

Wrote(stage, bg) ==
    [t \in Textures |->
        IF t \in Writes(bg) THEN [stage |-> stage, age |-> 0] ELSE prov[t]]

\* the texel values after a dispatch that stores kernel(c) at every cell c
\* of texture dst
Store(dst, kernel(_)) ==
    IF concrete THEN [field EXCEPT ![dst] = [c \in Cells |-> kernel(c)]]
    ELSE field

\* completed frames are counted up to MaxFrames when texel values are
\* carried, and only told apart from none otherwise
FrameCap == IF concrete THEN MaxFrames ELSE 1

LoopStart ==
    /\ pc = "idle"
    /\ animationFrameId # 0
    /\ concrete => frames < MaxFrames
    /\ simParams' = [dt |-> DtTenths,
                     enableBoundary |-> IF enableBoundary THEN 1 ELSE 0]
    /\ trace' = <<>>
    /\ prov' = [t \in Textures |->
                  [prov[t] EXCEPT !.age = Min(AgeCap, prov[t].age + 1)]]
    /\ velIdxIn' = velIdx
    /\ pc' = "branch"
    /\ UNCHANGED <<iter, velIdx, inkIdx, pIdx, brushInfo, showField,
                   enableBoundary, canvasSize, jacobiIter, brushParams,
                   frameDown, frames, concrete, field,
                   hostVars>>

\* brushParamBuffer.write of the isDown branch
WriteBrushParams ==
    /\ pc = "branch"
    /\ brushInfo.isDown
    /\ brushParams' = [pos |-> <<Trunc(brushInfo.pos[1], QualityDen),
                                 Trunc(brushInfo.pos[2], QualityDen)>>,
                       delta |-> brushInfo.delta,
                       radius |-> Trunc(simWidth * Unit, 10),
                       forceScale |-> ForceScaleTenths,
                       inkAmount |-> InkAmountHundredths]
    /\ frameDown' = TRUE
    /\ pc' = "brush"
    /\ UNCHANGED <<iter, velIdx, inkIdx, pIdx, brushInfo, showField,
                   enableBoundary, canvasSize, jacobiIter, simParams, trace,
                   prov, velIdxIn, frames, concrete, field,
                   hostVars>>

\* Brush adding to what the two textures held
DispatchBrush_Accumulates ==
    /\ pc = "brush"
    /\ LET bg == brushBindGroup
           force(c) == brushFn(c, brushParams).force
           ink(c) == brushFn(c, brushParams).ink
       IN /\ trace' = Log("Brush", bg)
          /\ prov' = Wrote("Brush", bg)
          /\ field' = IF concrete
                      THEN [field EXCEPT
                              ![bg.forceDst] =
                                 [c \in Cells |->
                                    <<field[bg.forceDst][c][1] + force(c)[1],
                                      field[bg.forceDst][c][2] + force(c)[2]>>],
                              ![bg.inkDst] =
                                 [c \in Cells |->
                                    <<field[bg.inkDst][c][1] + ink(c)[1], 0>>]]
                      ELSE field
    /\ pc' = "addInk"
    /\ UNCHANGED <<iter, velIdx, inkIdx, pIdx, brushInfo, showField,
                   enableBoundary, canvasSize, jacobiIter, simParams,
                   brushParams, frameDown, velIdxIn, frames, concrete,
                   hostVars>>

DispatchBrush ==
    /\ pc = "brush"
    /\ LET bg == brushBindGroup
           force(c) == brushFn(c, brushParams).force
           ink(c) == brushFn(c, brushParams).ink
       IN /\ trace' = Log("Brush", bg)
          /\ prov' = Wrote("Brush", bg)
          /\ field' = IF concrete
                      THEN [field EXCEPT
                              ![bg.forceDst] = [c \in Cells |-> force(c)],
                              ![bg.inkDst] = [c \in Cells |-> ink(c)]]
                      ELSE field
    /\ pc' = "addInk"
    /\ UNCHANGED <<iter, velIdx, inkIdx, pIdx, brushInfo, showField,
                   enableBoundary, canvasSize, jacobiIter, simParams,
                   brushParams, frameDown, velIdxIn, frames, concrete,
                   hostVars>>

DispatchAddInk ==
    /\ pc = "addInk"
    /\ LET bg == addInkBindGroups(inkIdx)
           kernel(c) == addInkFn(c, field[bg.src], field[bg.add])
       IN /\ trace' = Log("AddInk", bg)
          /\ prov' = Wrote("AddInk", bg)
          /\ field' = Store(bg.dst, kernel)
    /\ inkIdx' = swap(inkIdx)
    /\ pc' = "addForce"
    /\ UNCHANGED <<iter, velIdx, pIdx, brushInfo, showField, enableBoundary,
                   canvasSize, jacobiIter, simParams, brushParams, frameDown,
                   velIdxIn, frames, concrete,
                   hostVars>>

DispatchAddForce_Swaps ==
    /\ pc = "addForce"
    /\ LET bg == addForceBindGroups(velIdx)
           kernel(c) == addForcesFn(c, field[bg.src], field[bg.force], simParams)
       IN /\ trace' = Log("AddForce", bg)
          /\ prov' = Wrote("AddForce", bg)
          /\ field' = Store(bg.dst, kernel)
    /\ velIdx' = swap(velIdx)
    /\ pc' = "advect"
    /\ UNCHANGED <<iter, inkIdx, pIdx, brushInfo, showField, enableBoundary,
                   canvasSize, jacobiIter, simParams, brushParams, frameDown,
                   velIdxIn, frames, concrete, hostVars>>

DispatchAddForce ==
    /\ pc = "addForce"
    /\ LET bg == addForceBindGroups(velIdx)
           kernel(c) == addForcesFn(c, field[bg.src], field[bg.force], simParams)
       IN /\ trace' = Log("AddForce", bg)
          /\ prov' = Wrote("AddForce", bg)
          /\ field' = Store(bg.dst, kernel)
    /\ pc' = "advect"
    /\ UNCHANGED <<iter, velIdx, inkIdx, pIdx, brushInfo, showField,
                   enableBoundary, canvasSize, jacobiIter, simParams,
                   brushParams, frameDown, velIdxIn, frames,
                   concrete,
                   hostVars>>

\* the else branch: velBuffer.setCurrent(0)
ResetVelocity_NoReset ==
    /\ pc = "branch"
    /\ ~brushInfo.isDown
    /\ frameDown' = FALSE
    /\ pc' = "advect"
    /\ UNCHANGED <<iter, velIdx, inkIdx, pIdx, brushInfo, showField,
                   enableBoundary, canvasSize, jacobiIter, simParams,
                   brushParams, trace, prov, velIdxIn, frames, concrete,
                   field,
                   hostVars>>

ResetVelocity ==
    /\ pc = "branch"
    /\ ~brushInfo.isDown
    /\ velIdx' = setCurrent(0)
    /\ frameDown' = FALSE
    /\ pc' = "advect"
    /\ UNCHANGED <<iter, inkIdx, pIdx, brushInfo, showField, enableBoundary,
                   canvasSize, jacobiIter, simParams, brushParams, trace, prov,
                   velIdxIn, frames, concrete, field,
                   hostVars>>

DispatchAdvect ==
    /\ pc = "advect"
    /\ LET bg == advectBindGroups(velIdx)
           kernel(c) == advectFn(c, field[bg.src], simParams)
       IN /\ trace' = Log("Advect", bg)
          /\ prov' = Wrote("Advect", bg)
          /\ field' = Store(bg.dst, kernel)
    /\ iter' = 0
    /\ pc' = "diffuse"
    /\ UNCHANGED <<velIdx, inkIdx, pIdx, brushInfo, showField, enableBoundary,
                   canvasSize, jacobiIter, simParams, brushParams, frameDown,
                   velIdxIn, frames, concrete,
                   hostVars>>

\* for (let i = 0; i < params.jacobiIter; i++), of both Jacobi loops
JacobiLoopCond_OffByOne(i) == i <= jacobiIter

JacobiLoopCond(i) == i < jacobiIter

DispatchDiffuse ==
    /\ pc = "diffuse"
    /\ JacobiLoopCond(iter)
    /\ LET bg == diffusionBindGroups(velIdx)
           kernel(c) == diffusionFn(c, field[bg.in])
       IN /\ trace' = Log("Diffuse", bg)
          /\ prov' = Wrote("Diffuse", bg)
          /\ field' = Store(bg.out, kernel)
    /\ velIdx' = swap(velIdx)
    /\ iter' = iter + 1
    /\ UNCHANGED <<pc, inkIdx, pIdx, brushInfo, showField, enableBoundary,
                   canvasSize, jacobiIter, simParams, brushParams, frameDown,
                   velIdxIn, frames, concrete,
                   hostVars>>

\* the diffusion loop is over: Divergence
DispatchDivergence ==
    /\ pc = "diffuse"
    /\ ~JacobiLoopCond(iter)
    /\ LET bg == divergenceBindGroups(velIdx)
           kernel(c) == divergenceFn(c, field[bg.vel])
       IN /\ trace' = Log("Divergence", bg)
          /\ prov' = Wrote("Divergence", bg)
          /\ field' = Store(bg.div, kernel)
    /\ pc' = "resetPressure"
    /\ UNCHANGED <<iter, velIdx, inkIdx, pIdx, brushInfo, showField,
                   enableBoundary, canvasSize, jacobiIter, simParams,
                   brushParams, frameDown, velIdxIn, frames, concrete,
                   hostVars>>

ResetPressure_NoReset ==
    /\ pc = "resetPressure"
    /\ iter' = 0
    /\ pc' = "pressure"
    /\ UNCHANGED <<velIdx, inkIdx, pIdx, brushInfo, showField, enableBoundary,
                   canvasSize, jacobiIter, simParams, brushParams, trace, prov,
                   frameDown, velIdxIn, frames, concrete, field, hostVars>>

\* pressureBuffer.setCurrent(0) and the entry of the pressure loop
ResetPressure ==
    /\ pc = "resetPressure"
    /\ pIdx' = setCurrent(0)
    /\ iter' = 0
    /\ pc' = "pressure"
    /\ UNCHANGED <<velIdx, inkIdx, brushInfo, showField, enableBoundary,
                   canvasSize, jacobiIter, simParams, brushParams, trace, prov,
                   frameDown, velIdxIn, frames, concrete, field, hostVars>>

DispatchPressure ==
    /\ pc = "pressure"
    /\ JacobiLoopCond(iter)
    /\ LET bg == pressureBindGroups(pIdx)
           kernel(c) == pressureFn(c, field[bg.x], field[bg.b])
       IN /\ trace' = Log("Pressure", bg)
          /\ prov' = Wrote("Pressure", bg)
          /\ field' = Store(bg.out, kernel)
    /\ pIdx' = swap(pIdx)
    /\ iter' = iter + 1
    /\ UNCHANGED <<pc, velIdx, inkIdx, brushInfo, showField, enableBoundary,
                   canvasSize, jacobiIter, simParams, brushParams, frameDown,
                   velIdxIn, frames, concrete,
                   hostVars>>

\* the pressure loop is over: Project, then velBuffer.swap()
DispatchProject ==
    /\ pc = "pressure"
    /\ ~JacobiLoopCond(iter)
    /\ LET bg == projectBindGroups(velIdx, pIdx)
           kernel(c) == projectFn(c, field[bg.vel], field[bg.p])
       IN /\ trace' = Log("Project", bg)
          /\ prov' = Wrote("Project", bg)
          /\ field' = Store(bg.out, kernel)
    /\ velIdx' = swap(velIdx)
    /\ pc' = "advectInk"
    /\ UNCHANGED <<iter, inkIdx, pIdx, brushInfo, showField, enableBoundary,
                   canvasSize, jacobiIter, simParams, brushParams, frameDown,
                   velIdxIn, frames, concrete,
                   hostVars>>

DispatchAdvectInk ==
    /\ pc = "advectInk"
    /\ LET bg == advectInkBindGroups(velIdx, inkIdx)
           kernel(c) == advectScalarFn(c, field[bg.vel], field[bg.src], simParams)
       IN /\ trace' = Log("AdvectScalar", bg)
          /\ prov' = Wrote("AdvectScalar", bg)
          /\ field' = Store(bg.dst, kernel)
    /\ inkIdx' = swap(inkIdx)
    /\ pc' = "render"
    /\ UNCHANGED <<iter, velIdx, pIdx, brushInfo, showField, enableBoundary,
                   canvasSize, jacobiIter, simParams, brushParams, frameDown,
                   velIdxIn, frames, concrete,
                   hostVars>>

Render_Feedback ==
    /\ pc = "render"
    /\ trace' = Append(trace,
                  [stage |-> "Render", reads |-> {}, writes |-> {},
                   from |-> <<>>, vel |-> velIdx, ink |-> inkIdx, p |-> pIdx,
                   mode |-> showField, result |-> inkTex[inkIdx + 1]])
    /\ inkIdx' = IF showField = "velocity" THEN swap(inkIdx) ELSE inkIdx
    /\ frames' = Min(FrameCap, frames + 1)
    /\ animationFrameId' = 1
    /\ pc' = "idle"
    /\ UNCHANGED <<iter, velIdx, pIdx, brushInfo, showField, enableBoundary,
                   canvasSize, jacobiIter, simParams, brushParams, prov,
                   frameDown, velIdxIn, concrete, field, effect, twin, hook>>

\* the render pass: the bind-group array is picked by showField.current and
\* indexed by inkBuffer.currentIndex; the frame over, render() of useWebGPU
\* requests the next animation frame
Render ==
    /\ pc = "render"
    /\ LET renderBindGroup(idx) ==
               IF showField = "ink" THEN renderBindGroups("ink", idx)
               ELSE IF showField = "velocity"
                    THEN renderBindGroups("velocity", idx)
                    ELSE renderBindGroups("image", idx)
           bg == renderBindGroup(inkIdx)
       IN trace' = Append(trace,
                     [stage |-> "Render", reads |-> Reads(bg), writes |-> {},
                      from |-> [t \in Reads(bg) |-> prov[t]],
                      vel |-> velIdx, ink |-> inkIdx, p |-> pIdx,
                      mode |-> showField, result |-> bg.result])
    /\ frames' = Min(FrameCap, frames + 1)
    /\ animationFrameId' = 1
    /\ pc' = "idle"
    /\ UNCHANGED <<iter, velIdx, inkIdx, pIdx, brushInfo, showField,
                   enableBoundary, canvasSize, jacobiIter, simParams,
                   brushParams, prov, frameDown, velIdxIn, concrete, field,
                   effect, twin, hook>>

(***************************************************************************)
(* The state createScene and the component leave behind: zeroed textures,  *)
(* all three indices 0, the pointer up, the first animation frame          *)
(* requested.                                                              *)
(***************************************************************************)
\* no second run is carried
NoTwin == [phase |-> "single"]
\* the hook before the component is mounted: no effect run, no animation
\* frame requested
NoHook == [mounted |-> FALSE, status |-> <<>>, cleaned |-> {}, pending |-> {},
           nextId |-> 1, late |-> {}]

\* the refs and params of the component, and the scene's indices
InitLoop ==
    /\ iter = 0
    /\ velIdx = 0
    /\ inkIdx = 0
    /\ pIdx = 0
    /\ showField = "ink"
    /\ enableBoundary = TRUE
    /\ jacobiIter \in JacobiIterValues
    /\ simParams = [dt |-> DtTenths, enableBoundary |-> 1]
    /\ trace = <<>>
    /\ prov = [t \in Textures |-> [stage |-> "none", age |-> AgeCap]]
    /\ velIdxIn = 0
    /\ frames = 0

InitCommon ==
    /\ InitLoop
    /\ canvasSize = [width |-> CanvasWidth, height |-> CanvasHeight]
    /\ effect = "looping"
    /\ animationFrameId = 1

\* brushInfo and brushParamBuffer as the component and createScene set them
InitBrushUp ==
    /\ pc = "idle"
    /\ brushInfo = [pos |-> <<0, 0>>, delta |-> <<0, 0>>, isDown |-> FALSE]
    /\ brushParams = [pos |-> <<0, 0>>, delta |-> <<0, 0>>,
                      radius |-> Trunc(simWidth * Unit, 10),
                      forceScale |-> ForceScaleTenths,
                      inkAmount |-> InkAmountHundredths]
    /\ frameDown = FALSE

Init ==
    /\ InitCommon
    /\ InitBrushUp
    /\ twin = NoTwin
    /\ hook = NoHook
    /\ concrete = FALSE
    /\ field = [t \in SimTextures |-> ZeroField]

\* the steps of loop() after its first statement
Stage ==
    \/ WriteBrushParams
    \/ DispatchBrush
    \/ DispatchAddInk
    \/ DispatchAddForce
    \/ ResetVelocity
    \/ DispatchAdvect
    \/ DispatchDiffuse
    \/ DispatchDivergence
    \/ ResetPressure
    \/ DispatchPressure
    \/ DispatchProject
    \/ DispatchAdvectInk
    \/ Render

Frame ==
    \/ LoopStart
    \/ Stage

Next ==
    \/ Frame
    \/ \E t \in TouchPoints : handleStart(t)
    \/ \E t \in TouchPoints : handleMove(t)
    \/ handleEnd
    \/ \E f \in DisplayModes : handleShowField(f)
    \/ \E v \in BOOLEAN : handleBoundaryToggle(v)

Spec == Init /\ [][Next]_vars

(***************************************************************************)
(* Runs that carry texel values.  The velocity textures start from sample  *)
(* fields (the source starts them zeroed): at rest, a uniform flow, a      *)
(* rotation about the centre cell and a flow away from it.                 *)
(***************************************************************************)
VelocitySamples ==
    {ZeroField,
     [c \in Cells |-> <<Unit + Unit \div 2, -(Unit \div 2)>>],
     [c \in Cells |-> <<(c[2] - 1) * Unit, (1 - c[1]) * Unit>>],
     [c \in Cells |-> <<(c[1] - 1) * Unit, (c[2] - 1) * Unit>>]}

InitField ==
    /\ InitCommon
    /\ InitBrushUp
    /\ twin = NoTwin
    /\ hook = NoHook
    /\ concrete = TRUE
    /\ \E v0 \in VelocitySamples, v1 \in VelocitySamples :
          field = [t \in SimTextures |->
                     IF t = velTex[1] THEN v0
                     ELSE IF t = velTex[2] THEN v1 ELSE ZeroField]

NextField ==
    \/ Frame
    \/ \E t \in FieldTouchPoints : handleStart(t)
    \/ \E t \in FieldTouchPoints : handleMove(t)
    \/ handleEnd
    \/ \E v \in BOOLEAN : handleBoundaryToggle(v)

SpecField == InitField /\ [][NextField]_vars

(***************************************************************************)
(* The Brush dispatch on its own: the frame stands right before it, with   *)
(* the brush parameters drawn from sample positions, deltas and radii.     *)
(***************************************************************************)
BrushRadii ==
    {Trunc(3 * Unit, 10), Unit, Trunc(3 * Unit, 2), 2 * Unit}
BrushDeltas == {<<0, 0>>, <<5, 5>>, <<-10, 5>>}

InitBrush ==
    /\ InitCommon
    /\ pc = "brush"
    /\ frameDown = TRUE
    /\ twin = NoTwin
    /\ hook = NoHook
    /\ concrete = TRUE
    /\ field = [t \in SimTextures |-> ZeroField]
    /\ \E p \in Cells, dl \in BrushDeltas, r \in BrushRadii :
          /\ brushParams = [pos |-> p, delta |-> dl, radius |-> r,
                            forceScale |-> ForceScaleTenths,
                            inkAmount |-> InkAmountHundredths]
          /\ brushInfo = [pos |-> <<QualityDen * p[1], QualityDen * p[2]>>,
                          delta |-> dl, isDown |-> TRUE]

NextBrush == DispatchBrush

SpecBrush == InitBrush /\ [][NextBrush]_vars

(***************************************************************************)
(* The pressure projection on its own: the diffusion loop of a first frame *)
(* is over, the current velocity texture holds a sample field, the         *)
(* pressure textures are still zeroed.  Besides the samples above: a flow  *)
(* out of the four corner cells.                                           *)
(***************************************************************************)
CornerOutflow ==
    [c \in Cells |->
        IF c[1] # 1 /\ c[2] # 1
        THEN <<4 * Unit * (c[1] - 1), 4 * Unit * (c[2] - 1)>>
        ELSE ZeroTexel]

ProjectSamples == VelocitySamples \cup {CornerOutflow}

InitProject ==
    /\ jacobiIter \in JacobiIterValues
    /\ pc = "diffuse"
    /\ iter = jacobiIter
    /\ velIdx = jacobiIter % 2
    /\ inkIdx = 0
    /\ pIdx = 0
    /\ showField = "ink"
    /\ enableBoundary = TRUE
    /\ canvasSize = [width |-> CanvasWidth, height |-> CanvasHeight]
    /\ simParams = [dt |-> DtTenths, enableBoundary |-> 1]
    /\ trace = <<>>
    /\ prov = [t \in Textures |-> [stage |-> "none", age |-> AgeCap]]
    /\ velIdxIn = 0
    /\ frames = 0
    /\ effect = "looping"
    /\ animationFrameId = 1
    /\ brushInfo = [pos |-> <<0, 0>>, delta |-> <<0, 0>>, isDown |-> FALSE]
    /\ brushParams = [pos |-> <<0, 0>>, delta |-> <<0, 0>>,
                      radius |-> Trunc(simWidth * Unit, 10),
                      forceScale |-> ForceScaleTenths,
                      inkAmount |-> InkAmountHundredths]
    /\ frameDown = FALSE
    /\ twin = NoTwin
    /\ hook = NoHook
    /\ concrete = TRUE
    /\ \E v \in ProjectSamples :
          field = [t \in SimTextures |->
                     IF t = velTex[velIdx + 1] THEN v ELSE ZeroField]

NextProject ==
    \/ DispatchDivergence
    \/ ResetPressure
    \/ DispatchPressure
    \/ DispatchProject

SpecProject == InitProject /\ [][NextProject]_vars

(***************************************************************************)
(* The scene from the mount of the component on: the effect of useWebGPU   *)
(* runs createScene up to its first await (EffectRun), touches may arrive  *)
(* while the background image loads, and the continuation (EffectResume)   *)
(* builds the textures and requests the first animation frame.  Every      *)
(* call that can throw or reject may do so.                                *)
(***************************************************************************)
\* canvas sizes in pixels: empty, narrower than one grid cell, regular
CanvasSizes ==
    {[width |-> 0, height |-> 0],
     [width |-> 4, height |-> CanvasHeight],
     [width |-> CanvasWidth, height |-> CanvasHeight]}

\* how the synchronous part ends: getContext returns null or
\* tgpu.initFromDevice throws, createBuffer throws, or fetch is awaited
EffectOutcomes == {"initThrows", "bufferThrows", "awaits"}

EffectRun(size, outcome) ==
    /\ effect = "mounted"
    /\ IF outcome = "initThrows"
       THEN /\ effect' = "failed"
            /\ UNCHANGED <<canvasSize, simParams, brushParams>>
       ELSE /\ canvasSize' = size
            /\ IF outcome = "bufferThrows"
               THEN /\ effect' = "failed"
                    /\ UNCHANGED <<simParams, brushParams>>
               ELSE /\ effect' = "awaitImage"
                    /\ simParams' =
                          [dt |-> DtTenths,
                           enableBoundary |-> IF enableBoundary THEN 1 ELSE 0]
                    /\ brushParams' =
                          [pos |-> <<0, 0>>, delta |-> <<0, 0>>,
                           radius |->
                             Trunc(Max(1, size.width \div QualityDen) * Unit,
                                   10),
                           forceScale |-> ForceScaleTenths,
                           inkAmount |-> InkAmountHundredths]
    /\ UNCHANGED <<pc, iter, velIdx, inkIdx, pIdx, brushInfo, showField,
                   enableBoundary, jacobiIter, trace, prov, frameDown,
                   velIdxIn, frames, concrete, field, animationFrameId, twin,
                   hook>>

\* the awaits of createScene settle: rejected, or the textures and bind
\* groups are built, loop is returned and the first frame is requested
EffectResume(ok) ==
    /\ effect = "awaitImage"
    /\ IF ok
       THEN /\ velIdx' = 0
            /\ inkIdx' = 0
            /\ pIdx' = 0
            /\ field' = [t \in SimTextures |-> ZeroField]
            /\ prov' = [t \in Textures |-> [stage |-> "none", age |-> AgeCap]]
            /\ effect' = "looping"
            /\ animationFrameId' = 1
       ELSE /\ effect' = "failed"
            /\ UNCHANGED <<velIdx, inkIdx, pIdx, field, prov,
                           animationFrameId>>
    /\ UNCHANGED <<pc, iter, brushInfo, showField, enableBoundary, canvasSize,
                   jacobiIter, simParams, brushParams, trace, frameDown,
                   velIdxIn, frames, concrete, twin, hook>>

InitScene ==
    /\ InitLoop
    /\ canvasSize = NoSize
    /\ effect = "mounted"
    /\ animationFrameId = 0
    /\ InitBrushUp
    /\ twin = NoTwin
    /\ hook = NoHook
    /\ concrete = FALSE
    /\ field = [t \in SimTextures |-> ZeroField]

NextScene ==
    \/ \E size \in CanvasSizes, outcome \in EffectOutcomes :
          EffectRun(size, outcome)
    \/ \E ok \in BOOLEAN : EffectResume(ok)
    \/ Frame
    \/ \E t \in TouchPoints : handleStart(t)
    \/ \E t \in TouchPoints : handleMove(t)
    \/ handleEnd

SpecScene == InitScene /\ [][NextScene]_vars

(***************************************************************************)
(* Two runs of the scene side by side.  Both are fed the same brush states *)
(* and parameters; each has its own display mode.  The run that is not     *)
(* executing is parked in `twin`; the runs take turns frame by frame: the  *)
(* first runs a frame, then the second runs the same frame.                *)
(***************************************************************************)
\* the state of the executing run that belongs to its scene
Parked ==
    [pc |-> pc, iter |-> iter, velIdx |-> velIdx, inkIdx |-> inkIdx,
     pIdx |-> pIdx, showField |-> showField, simParams |-> simParams,
     brushParams |-> brushParams, trace |-> trace, prov |-> prov,
     frameDown |-> frameDown, velIdxIn |-> velIdxIn, frames |-> frames,
     field |-> field]

\* both runs have completed the same frames and the first one executes
TwinInSync == twin.phase = "a" /\ frames = twin.run.frames
\* the executing run may start its next frame
TwinMayStart == TwinInSync \/ (twin.phase = "b" /\ frames < twin.run.frames)
\* the executing run has finished the frame the other one has yet to run,
\* or has caught up
TwinTurnOver ==
    IF twin.phase = "a" THEN frames = twin.run.frames + 1
    ELSE frames = twin.run.frames

Switch ==
    /\ pc = "idle"
    /\ TwinTurnOver
    /\ twin' = [phase |-> IF twin.phase = "a" THEN "b" ELSE "a",
                run |-> Parked]
    /\ pc' = twin.run.pc
    /\ iter' = twin.run.iter
    /\ velIdx' = twin.run.velIdx
    /\ inkIdx' = twin.run.inkIdx
    /\ pIdx' = twin.run.pIdx
    /\ showField' = twin.run.showField
    /\ simParams' = twin.run.simParams
    /\ brushParams' = twin.run.brushParams
    /\ trace' = twin.run.trace
    /\ prov' = twin.run.prov
    /\ frameDown' = twin.run.frameDown
    /\ velIdxIn' = twin.run.velIdxIn
    /\ frames' = twin.run.frames
    /\ field' = twin.run.field
    /\ UNCHANGED <<brushInfo, enableBoundary, canvasSize, jacobiIter,
                   concrete, effect, animationFrameId, hook>>

InitTwin ==
    /\ InitCommon
    /\ InitBrushUp
    /\ concrete = TRUE
    /\ field = [t \in SimTextures |-> ZeroField]
    /\ twin = [phase |-> "a", run |-> Parked]
    /\ hook = NoHook

NextTwin ==
    \/ TwinMayStart /\ LoopStart
    \/ Stage
    \/ \E t \in FieldTouchPoints : TwinInSync /\ handleStart(t)
    \/ \E t \in FieldTouchPoints : TwinInSync /\ handleMove(t)
    \/ TwinInSync /\ handleEnd
    \/ \E f \in DisplayModes : TwinMayStart /\ handleShowField(f)
    \/ Switch

SpecTwin == InitTwin /\ [][NextTwin]_vars

(***************************************************************************)
(* Properties of the frame scheduler.                                      *)
(***************************************************************************)
VelTextures == {velTex[1], velTex[2]}
InkTextures == {inkTex[1], inkTex[2]}

Stages(tr) == [n \in 1 .. Len(tr) |-> tr[n].stage]
Repeat(s, n) == [j \in 1 .. n |-> s]
IsPrefix(a, b) == Len(a) <= Len(b) /\ \A n \in 1 .. Len(a) : a[n] = b[n]
Entries(stage) == {n \in 1 .. Len(trace) : trace[n].stage = stage}

\* a frame is running and has passed its isDown branch
InFrame == pc \notin {"idle", "branch"}
\* the last frame has run to its end
FrameDone == pc = "idle" /\ frames > 0

ExpectedOrder(down, k) ==
    (IF down THEN <<"Brush", "AddInk", "AddForce">> ELSE <<>>)
    \o <<"Advect">> \o Repeat("Diffuse", k) \o <<"Divergence">>
    \o Repeat("Pressure", k) \o <<"Project", "AdvectScalar", "Render">>

\* C1: the dispatches of a frame are, in this order, Brush, AddInk and
\* AddForce (only when isDown), Advect, jacobiIter Diffuse, Divergence,
\* jacobiIter Pressure, Project, AdvectScalar and the render pass: the
\* dispatches so far are always a prefix of that sequence, and a finished
\* frame has made all of them.
C1_StageOrder ==
    /\ InFrame =>
         IsPrefix(Stages(trace), ExpectedOrder(brushInfo.isDown, jacobiIter))
    /\ FrameDone => Stages(trace) = ExpectedOrder(frameDown, jacobiIter)

C1_Witness ==
    /\ FrameDone
    /\ frameDown
    /\ jacobiIter = 2
    /\ Stages(trace) = <<"Brush", "AddInk", "AddForce", "Advect", "Diffuse",
                         "Diffuse", "Divergence", "Pressure", "Pressure",
                         "Project", "AdvectScalar", "Render">>

\* C2: no dispatch writes a texture that the same dispatch reads.
C2_NoReadWriteSameTexture ==
    \A n \in 1 .. Len(trace) : trace[n].reads \cap trace[n].writes = {}

C2_Witness ==
    /\ pc = "render"
    /\ \E n \in Entries("Advect") : trace[n].vel = 1
    /\ \E n \in Entries("AddInk") : trace[n].ink = 1
    /\ \E n \in Entries("Pressure") : trace[n].p = 1

\* C3: in a frame that found isDown false none of Brush, AddInk, AddForce is
\* dispatched, and Advect is dispatched with the velocity index at 0.
C3_NoInjectionWhenUp ==
    (pc # "idle" /\ ~brushInfo.isDown) =>
        /\ \A n \in 1 .. Len(trace) :
              /\ trace[n].stage \notin {"Brush", "AddInk", "AddForce"}
              /\ trace[n].stage = "Advect" => trace[n].vel = 0
        /\ pc = "advect" => velIdx = 0

C3_Witness ==
    /\ pc = "diffuse"
    /\ ~brushInfo.isDown
    /\ velIdxIn = 1
    /\ Entries("Advect") # {}

\* C4: AdvectScalar reads the velocity texture Project wrote in this frame,
\* and the ink texture written last: by AddInk of this frame when isDown,
\* otherwise by AdvectScalar of the previous frame (by nothing in the very
\* first frame).
C4_InkAdvectedByProjectedVelocity ==
    \A n \in Entries("AdvectScalar") :
        /\ \A v \in trace[n].reads \cap VelTextures :
              /\ trace[n].from[v] = [stage |-> "Project", age |-> 0]
              /\ \E q \in Entries("Project") : q < n /\ trace[q].writes = {v}
        /\ \A k \in trace[n].reads \cap InkTextures :
              IF frameDown
              THEN trace[n].from[k] = [stage |-> "AddInk", age |-> 0]
              ELSE \/ trace[n].from[k] = [stage |-> "AdvectScalar", age |-> 1]
                   \/ /\ trace[n].from[k].stage = "none"
                      /\ \A t \in InkTextures : prov[t].stage # "AddInk"
        /\ Cardinality(trace[n].reads \cap VelTextures) = 1
        /\ Cardinality(trace[n].reads \cap InkTextures) = 1

C4_Witness ==
    /\ pc = "render"
    /\ ~frameDown
    /\ \E n \in Entries("AdvectScalar") : \E k \in trace[n].reads :
          trace[n].from[k] = [stage |-> "AdvectScalar", age |-> 1]

\* C5: the velocity index after the diffusion loop (the one Divergence is
\* dispatched with) is the index the loop was entered with (the one Advect
\* was dispatched with) XOR (jacobiIter mod 2), and the pressure index after
\* the pressure loop (the one Project is dispatched with) is jacobiIter mod 2.
C5_BufferParity ==
    /\ \A n \in Entries("Divergence") : \A a \in Entries("Advect") :
          trace[n].vel = Xor(trace[a].vel, jacobiIter % 2)
    /\ \A n \in Entries("Project") : trace[n].p = jacobiIter % 2

C5_Witness ==
    /\ pc = "advectInk"
    /\ jacobiIter = 10
    /\ \E a \in Entries("Advect") : trace[a].vel = 1
    /\ \E n \in Entries("Divergence") : trace[n].vel = 1
    /\ \E n \in Entries("Project") : trace[n].p = 0

\* C6: in display mode 'velocity' the render pass samples the velocity
\* texture Project wrote in this frame, which is the current velocity buffer.
C6_RenderShowsProjectedVelocity ==
    \A n \in Entries("Render") :
        trace[n].mode = "velocity" =>
            /\ trace[n].from[trace[n].result] = [stage |-> "Project", age |-> 0]
            /\ trace[n].result = velTex[trace[n].vel + 1]

\* C7: in display modes 'ink' and 'image' the render pass samples the ink
\* texture AdvectScalar wrote in this frame.
C7_RenderShowsAdvectedInk ==
    \A n \in Entries("Render") :
        trace[n].mode \in {"ink", "image"} =>
            /\ trace[n].result \in InkTextures
            /\ trace[n].from[trace[n].result]
                 = [stage |-> "AdvectScalar", age |-> 0]

C7_Witness ==
    /\ FrameDone
    /\ frameDown
    /\ \E n \in Entries("Render") : trace[n].mode = "image" /\ trace[n].ink = 0

(***************************************************************************)
(* Properties of the texel values.                                         *)
(***************************************************************************)
LastStage == IF trace = <<>> THEN "none" ELSE trace[Len(trace)].stage

\* C8: as long as no frame has found isDown set (Brush was never
\* dispatched), an ink field that started zero in both buffers is zero in
\* every cell of both buffers, and so in the current one, whatever the
\* velocity textures held.
C8_ZeroInkStaysZero ==
    (concrete /\ prov[newInkTex].stage = "none") =>
        /\ field[inkTex[1]] = ZeroField
        /\ field[inkTex[2]] = ZeroField

C8_Witness ==
    /\ concrete
    /\ pc = "idle"
    /\ frames = MaxFrames
    /\ prov[newInkTex].stage = "none"
    /\ field[velTex[velIdx + 1]] # ZeroField
    /\ field[inkTex[inkIdx + 1]] = ZeroField

\* the border cells as the claim names them
OnGridEdge(c) ==
    \/ c[1] = 0
    \/ c[1] = simWidth - 1
    \/ c[2] = 0
    \/ c[2] = simHeight - 1

\* C9: right after Advect, with enableBoundary set every cell with x = 0,
\* x = W-1, y = 0 or y = H-1 of the written velocity texture holds (0,0);
\* every other cell, and every cell when enableBoundary is clear, holds the
\* source texture sampled at the cell's clamped back-traced position.
C9_AdvectNoSlipBorder ==
    (concrete /\ pc = "diffuse" /\ iter = 0) =>
        LET bg == advectBindGroups(velIdx)
            src == field[bg.src]
        IN \A c \in Cells :
              field[bg.dst][c] =
                 IF simParams.enableBoundary = 1 /\ OnGridEdge(c)
                 THEN ZeroTexel
                 ELSE textureSampleLevel(src,
                          NormalizeCoords(ClampCoords(BackTrace(c, src[c]))))

C9_Witness ==
    /\ concrete
    /\ pc = "diffuse"
    /\ iter = 0
    /\ simParams.enableBoundary = 1
    /\ LET bg == advectBindGroups(velIdx)
       IN /\ \A c \in Cells : OnGridEdge(c) => field[bg.src][c] # ZeroTexel
          /\ \E c \in Cells : field[bg.dst][c] # ZeroTexel

\* squared distance of a cell from the brush centre and squared radius, in
\* Unit * Unit steps
DistSqFromBrush(c) ==
    ((c[1] - brushParams.pos[1]) * (c[1] - brushParams.pos[1])
     + (c[2] - brushParams.pos[2]) * (c[2] - brushParams.pos[2])) * Unit * Unit
RadiusSq == brushParams.radius * brushParams.radius

\* C10: right after Brush, the weight is 1 at the brush centre, 0 at every
\* cell at distance >= r, and max(0, 1 - distSq/r^2) at every cell; a cell at
\* distance >= r gets zero force and zero ink, and every cell gets inkAmount
\* times that weight as ink.
C10_BrushWeight ==
    (concrete /\ pc = "addInk" /\ LastStage = "Brush") =>
        \A c \in Cells :
            LET w == BrushWeight(c, brushParams)
            IN /\ w.den > 0
               /\ c = brushParams.pos => w.num = w.den
               /\ DistSqFromBrush(c) >= RadiusSq =>
                     /\ w.num = 0
                     /\ field[forceTex][c] = ZeroTexel
                     /\ field[newInkTex][c] = ZeroTexel
               /\ w.num * RadiusSq = Max(0, RadiusSq - DistSqFromBrush(c)) * w.den
               /\ field[newInkTex][c][1] =
                     Trunc(Unit * brushParams.inkAmount
                             * Max(0, RadiusSq - DistSqFromBrush(c)),
                           100 * RadiusSq)

C10_Witness ==
    /\ concrete
    /\ pc = "addInk"
    /\ LastStage = "Brush"
    /\ field[newInkTex][brushParams.pos][1] = Trunc(Unit * InkAmountHundredths, 100)
    /\ \E c \in Cells :
          /\ 0 < DistSqFromBrush(c)
          /\ DistSqFromBrush(c) < RadiusSq
          /\ field[newInkTex][c][1] > 0
          /\ field[newInkTex][c][1] < field[newInkTex][brushParams.pos][1]
          /\ field[forceTex][c] # ZeroTexel
    /\ \E c \in Cells :
          /\ DistSqFromBrush(c) >= RadiusSq
          /\ field[forceTex][c] = ZeroTexel

(***************************************************************************)
(* Properties of the touch handlers and of the display mode.               *)
(***************************************************************************)
\* C11: whatever the interleaving of handleStart, handleMove and handleEnd
\* with the frame loop, the isDown a frame branched on and the pos and delta
\* it wrote to the brush parameters are those of the one BrushInfo value
\* brushInfo.current holds during the whole frame, and that value is one a
\* single handler call produces (a pointer that is up has pos and delta
\* reset together with isDown).
C11_BrushReadIsAtomic ==
    /\ pc \notin {"idle", "branch"} =>
         /\ frameDown = brushInfo.isDown
         /\ frameDown =>
               /\ brushParams.pos = <<Trunc(brushInfo.pos[1], QualityDen),
                                      Trunc(brushInfo.pos[2], QualityDen)>>
               /\ brushParams.delta = brushInfo.delta
    /\ ~brushInfo.isDown =>
         /\ brushInfo.pos = <<0, 0>>
         /\ brushInfo.delta = <<0, 0>>

C11_Witness ==
    /\ pc = "render"
    /\ frameDown
    /\ frames > 0
    /\ brushParams.pos # <<0, 0>>
    /\ brushParams.delta # <<0, 0>>
    /\ brushParams.delta = brushInfo.delta

\* C12: of two runs fed the same brush states and parameters, whatever
\* display modes either of them is switched to and when, the velocity, ink
\* and pressure buffer indices and the contents of every texture are the
\* same after every frame.
C12_DisplayModeNoInterference ==
    (twin.phase = "a" /\ pc = "idle" /\ frames = twin.run.frames) =>
        /\ velIdx = twin.run.velIdx
        /\ inkIdx = twin.run.inkIdx
        /\ pIdx = twin.run.pIdx
        /\ field = twin.run.field

C12_Witness ==
    /\ twin.phase = "a"
    /\ pc = "idle"
    /\ frames = twin.run.frames
    /\ frames >= 2
    /\ trace[Len(trace)].mode = "velocity"
    /\ twin.run.trace[Len(twin.run.trace)].mode = "ink"
    /\ field[velTex[velIdx + 1]] # ZeroField
    /\ field[inkTex[inkIdx + 1]] # ZeroField

(***************************************************************************)
(* Properties of the construction of the scene.                            *)
(***************************************************************************)
\* C13: a scene is constructed (loop is returned and its first frame
\* requested) only if the grid width floor(width * SIMULATION_QUALITY) and
\* the grid height are at least 1 and jacobiIter is positive.
C13_ConstructionRejectsBadConfig ==
    effect = "looping" =>
        /\ canvasSize.width \div QualityDen >= 1
        /\ canvasSize.height \div QualityDen >= 1
        /\ jacobiIter >= 1

\* C14: the position realToCanvas returned to the last touch handler lies
\* inside the grid, 0 <= x <= simWidth - 1 and 0 <= y <= simHeight - 1
\* (positions are in 1/QualityDen cells), and is (0,0) while the canvas size
\* is not known.
C14_RealToCanvasInsideGrid ==
    brushInfo.isDown =>
        /\ 0 <= brushInfo.pos[1]
        /\ brushInfo.pos[1] <= QualityDen * (simWidth - 1)
        /\ 0 <= brushInfo.pos[2]
        /\ brushInfo.pos[2] <= QualityDen * (simHeight - 1)
        /\ canvasSize = NoSize => brushInfo.pos = <<0, 0>>

\* C15: after a construction that failed, no animation frame is requested
\* and canvasSize is as it was before the construction started (not set).
C15_FailedConstructionLeavesNoState ==
    effect = "failed" =>
        /\ animationFrameId = 0
        /\ canvasSize = NoSize

(***************************************************************************)
(* Properties of the pressure projection.                                  *)
(***************************************************************************)
RECURSIVE SumSq(_, _)
\* the sum over the cells in S of the squared first channel of f
SumSq(f, S) ==
    IF S = {} THEN 0
    ELSE LET c == CHOOSE x \in S : TRUE
         IN f[c][1] * f[c][1] + SumSq(f, S \ {c})

\* squared L2 norm of a divergence field
DivNormSq(f) == SumSq(f, Cells)

\* right after Project: the texture it wrote, and its divergence recomputed
\* with the Divergence stencil
Projected == field[velTex[velIdx + 1]]
DivAfterProject == [c \in Cells |-> divergenceFn(c, Projected)]

PressureTextures == {pressureTex[1], pressureTex[2]}
\* the first dispatch of the frame that reads a velocity texture
FirstVelocityReader ==
    IF frameDown THEN Entries("AddForce") ELSE Entries("Advect")

\* C17: the first stage of a frame that reads velocity (AddForce when
\* isDown, otherwise Advect) reads the velocity texture the previous
\* frame's Project wrote; in the first frame after construction it reads a
\* texture nothing has written yet.
C17_FirstReaderReadsProjected ==
    InFrame =>
        \A n \in FirstVelocityReader :
            \A v \in trace[n].reads \cap VelTextures :
                IF frames = 0
                THEN trace[n].from[v].stage = "none"
                ELSE trace[n].from[v] = [stage |-> "Project", age |-> 1]

\* C18: in a frame with isDown the dispatch after AddInk sees the ink index
\* toggled once and the dispatch after AddForce (Advect) sees the velocity
\* index AddForce was dispatched with; Advect reads exactly the texture
\* AddForce wrote and writes the texture at that index, which is still the
\* current index when the diffusion loop is entered.
C18_AddForceThenAdvect ==
    /\ \A n \in Entries("AddInk") :
          n < Len(trace) => trace[n + 1].ink = Xor(trace[n].ink, 1)
    /\ \A n \in Entries("AddForce") : \A a \in Entries("Advect") :
          /\ a = n + 1
          /\ trace[a].vel = trace[n].vel
          /\ trace[a].ink = trace[n].ink
          /\ trace[a].reads = trace[n].writes
          /\ trace[a].from[velTex[(1 - trace[a].vel) + 1]]
               = [stage |-> "AddForce", age |-> 0]
          /\ trace[a].writes = {velTex[trace[a].vel + 1]}
    /\ (pc = "diffuse" /\ iter = 0) =>
          /\ prov[velTex[velIdx + 1]] = [stage |-> "Advect", age |-> 0]
          /\ \A a \in Entries("Advect") : velIdx = trace[a].vel

C18_Witness ==
    /\ pc = "diffuse"
    /\ iter = 0
    /\ frameDown
    /\ \E n \in Entries("AddForce") :
          /\ trace[n].vel = 1
          /\ trace[n].writes = {velTex[1]}
    /\ \E a \in Entries("Advect") : trace[a].reads = {velTex[1]}

\* C19: Divergence and Project read the same velocity texture, the one the
\* last Diffuse iteration wrote in this frame (Advect when jacobiIter = 0);
\* right after the Divergence dispatch the three buffer indices are those it
\* was dispatched with; Project writes the other velocity texture, and the
\* velocity index after it is toggled once.
C19_DivergenceAndProjectSameVelocity ==
    /\ \A n \in Entries("Divergence") :
          /\ \A v \in trace[n].reads \cap VelTextures :
                trace[n].from[v] =
                   [stage |-> IF jacobiIter = 0 THEN "Advect" ELSE "Diffuse",
                    age |-> 0]
          /\ \A q \in Entries("Project") :
                /\ trace[q].reads \cap VelTextures
                     = trace[n].reads \cap VelTextures
                /\ trace[q].vel = trace[n].vel
                /\ trace[q].writes
                     = VelTextures \ (trace[n].reads \cap VelTextures)
          /\ Cardinality(trace[n].reads \cap VelTextures) = 1
    /\ pc = "resetPressure" =>
          /\ velIdx = trace[Len(trace)].vel
          /\ inkIdx = trace[Len(trace)].ink
          /\ pIdx = trace[Len(trace)].p
    /\ pc = "advectInk" => velIdx = Xor(trace[Len(trace)].vel, 1)
    /\ \A q \in Entries("Project") : \A k \in Entries("AdvectScalar") :
          trace[k].vel = Xor(trace[q].vel, 1)

C19_Witness ==
    /\ pc = "render"
    /\ jacobiIter = 10
    /\ \E n \in Entries("Divergence") :
          /\ trace[n].vel = 1
          /\ trace[n].reads = {velTex[2]}
    /\ \E q \in Entries("Project") :
          /\ trace[q].reads \cap VelTextures = {velTex[2]}
          /\ trace[q].writes = {velTex[1]}
    /\ velIdx = 0

\* C20: the first Pressure iteration of every frame is dispatched with the
\* pressure index at 0, whatever index the previous frame left, and with
\* jacobiIter >= 1 Project reads the pressure texture the last Pressure
\* iteration of the frame wrote.
C20_PressureResetAndRead ==
    /\ \A n \in Entries("Pressure") :
          (\A m \in Entries("Pressure") : n <= m) => trace[n].p = 0
    /\ (pc = "pressure" /\ iter = 0) => pIdx = 0
    /\ \A q \in Entries("Project") :
          jacobiIter >= 1 =>
              /\ trace[q - 1].stage = "Pressure"
              /\ trace[q].reads \cap PressureTextures = trace[q - 1].writes
              /\ \A t \in trace[q].reads \cap PressureTextures :
                    trace[q].from[t] = [stage |-> "Pressure", age |-> 0]

C20_Witness ==
    /\ pc = "advectInk"
    /\ frames > 0
    /\ jacobiIter = 1
    /\ pIdx = 1
    /\ prov[pressureTex[2]] = [stage |-> "Pressure", age |-> 0]
    /\ \E n \in Entries("Pressure") : trace[n].p = 0
    /\ \E q \in Entries("Project") :
          trace[q].reads \cap PressureTextures = {pressureTex[2]}

(***************************************************************************)
(* Which buffer of a pair a stage writes.                                  *)
(***************************************************************************)
\* the pair of textures a mutating stage works on, and the index of that
\* pair's DoubleBuffer logged at the dispatch
PairOf(stage) ==
    IF stage \in {"AddInk", "AdvectScalar"} THEN inkTex
    ELSE IF stage = "Pressure" THEN pressureTex
    ELSE velTex

IndexAt(n) ==
    IF trace[n].stage \in {"AddInk", "AdvectScalar"} THEN trace[n].ink
    ELSE IF trace[n].stage = "Pressure" THEN trace[n].p
    ELSE trace[n].vel

MutatingStages == {"AddInk", "AddForce", "Advect", "Diffuse", "Pressure",
                   "Project", "AdvectScalar"}

CurrentAt(n) == PairOf(trace[n].stage)[IndexAt(n) + 1]
OtherAt(n) == PairOf(trace[n].stage)[(1 - IndexAt(n)) + 1]

\* C21: every dispatch of AddInk, AddForce, Advect, Diffuse, Pressure,
\* Project and AdvectScalar writes the texture of its pair that the pair's
\* index does not designate at the dispatch, and only reads the one it does.
C21_WritesNonCurrentBuffer ==
    \A n \in 1 .. Len(trace) :
        trace[n].stage \in MutatingStages =>
            /\ trace[n].writes = {OtherAt(n)}
            /\ CurrentAt(n) \in trace[n].reads

(***************************************************************************)
(* The transient force and injected-ink textures.                          *)
(***************************************************************************)
\* what Brush computes from the brush state of the frame in progress
FrameBrushParams ==
    [pos |-> <<Trunc(brushInfo.pos[1], QualityDen),
               Trunc(brushInfo.pos[2], QualityDen)>>,
     delta |-> brushInfo.delta,
     radius |-> Trunc(simWidth * Unit, 10),
     forceScale |-> ForceScaleTenths,
     inkAmount |-> InkAmountHundredths]

FromBrushOfThisFrame(n, tex) ==
    /\ tex \in trace[n].reads
    /\ trace[n].from[tex] = [stage |-> "Brush", age |-> 0]
    /\ \E b \in Entries("Brush") : b < n

\* C22: AddInk and AddForce read the injected-ink and force textures that
\* Brush wrote earlier in the same frame; right after Brush every cell of both
\* textures holds what brushFn gives for the frame's brush state (zero
\* outside the radius), whatever the textures held before, and the velocity
\* and ink AddForce and AddInk write are their sources plus that injection.
C22_InjectionIsThisFramesBrush ==
    /\ \A n \in Entries("AddInk") : FromBrushOfThisFrame(n, newInkTex)
    /\ \A n \in Entries("AddForce") : FromBrushOfThisFrame(n, forceTex)
    /\ (concrete /\ frameDown /\ pc \in {"addInk", "addForce", "advect"}) =>
          \A c \in Cells :
              /\ field[forceTex][c] = brushFn(c, FrameBrushParams).force
              /\ field[newInkTex][c] = brushFn(c, FrameBrushParams).ink
              /\ BrushDistSq(c, FrameBrushParams)
                    >= BrushRadiusSq(FrameBrushParams) =>
                    /\ field[forceTex][c] = ZeroTexel
                    /\ field[newInkTex][c] = ZeroTexel
    /\ (concrete /\ pc = "advect" /\ LastStage = "AddForce") =>
          \A c \in Cells :
              /\ field[velTex[(1 - velIdx) + 1]][c] =
                    addForcesFn(c, field[velTex[velIdx + 1]],
                                [d \in Cells |->
                                    brushFn(d, FrameBrushParams).force],
                                simParams)
              /\ field[inkTex[inkIdx + 1]][c][1] =
                    field[inkTex[(1 - inkIdx) + 1]][c][1]
                      + brushFn(c, FrameBrushParams).ink[1]

\* a second frame with the pointer down whose force differs from the force
\* the frame before wrote
C22_Witness ==
    /\ concrete
    /\ frameDown
    /\ pc = "advect"
    /\ LastStage = "AddForce"
    /\ frames >= 1
    /\ prov[velTex[1]].stage # "none"
    /\ brushInfo.delta = <<0, 0>>
    /\ field[forceTex] = ZeroField
    /\ \E c \in Cells : field[newInkTex][c] # ZeroTexel
    /\ \E c \in Cells : field[newInkTex][c] = ZeroTexel

(***************************************************************************)
(* A pointer held still: touch events arrive before the first frame only,  *)
(* then the frame loop runs on the brush state they left.                  *)
(***************************************************************************)
NextHold ==
    \/ Frame
    \/ frames = 0 /\ \E t \in TouchPoints : handleStart(t)
    \/ frames = 0 /\ \E t \in TouchPoints : handleMove(t)

SpecHold == InitField /\ [][NextHold]_vars

\* C25: when no touch event arrives after the first frame has run, the
\* frames after the first one inject no force: the force texture Brush
\* writes in them is zero in every cell.
C25_DeltaInjectsOnce ==
    (concrete /\ frameDown /\ frames >= 1
       /\ pc \in {"addInk", "addForce", "advect"}) =>
        field[forceTex] = ZeroField

\* C26: injection is switched on by a touch start only: every step that
\* takes brushInfo.isDown from false to true leaves the delta at (0, 0), so
\* the delta a frame injects is never measured from the position (0, 0)
\* handleEnd (or the initial value) left in brushInfo.
C26_DeltaWithinOneTouch ==
    [][(~brushInfo.isDown /\ brushInfo'.isDown)
          => brushInfo'.delta = <<0, 0>>]_vars

\* C27: the index of each of the three DoubleBuffers is 0 or 1 in every
\* state and at every dispatch, so each bind-group array is indexed inside
\* its two entries; swap gives the other of the two indices and swapping
\* twice gives the index back.
C27_BufferIndexInRange ==
    /\ \A i \in {velIdx, inkIdx, pIdx} :
          /\ i \in {0, 1}
          /\ swap(i) = 1 - i
          /\ swap(swap(i)) = i
    /\ \A n \in 1 .. Len(trace) :
          /\ {trace[n].vel, trace[n].ink, trace[n].p} \subseteq {0, 1}
          /\ trace[n].reads \cup trace[n].writes \subseteq Textures

\* a later frame in which all three indices stand at 1 after the Jacobi
\* loops have swapped
C27_Witness ==
    /\ pc = "pressure"
    /\ ~JacobiLoopCond(iter)
    /\ frames > 0
    /\ velIdx = 1
    /\ inkIdx = 1
    /\ pIdx = 1
    /\ Entries("Diffuse") # {}
    /\ Entries("Pressure") # {}

(***************************************************************************)
(* The diffusion loop on grids of several sizes: the canvas is drawn from  *)
(* sizes that give 1 to 4 cells a side, the current velocity texture holds *)
(* a sample field.                                                         *)
(***************************************************************************)
GridCanvasSides == {4, 10, CanvasWidth, CanvasWidth + 4}

GridSamples ==
    VelocitySamples
      \cup {[c \in Cells |-> <<(c[1] * c[1] + 3 * c[2]) * (Unit \div 4),
                               (c[1] - c[2] * c[2]) * (Unit \div 4)>>]}

InitGrid ==
    /\ jacobiIter \in {1, 2}
    /\ pc = "diffuse"
    /\ iter = 0
    /\ velIdx = 0
    /\ inkIdx = 0
    /\ pIdx = 0
    /\ showField = "ink"
    /\ enableBoundary = TRUE
    /\ \E w \in GridCanvasSides, h \in GridCanvasSides :
          canvasSize = [width |-> w, height |-> h]
    /\ simParams = [dt |-> DtTenths, enableBoundary |-> 1]
    /\ trace = <<>>
    /\ prov = [t \in Textures |-> [stage |-> "none", age |-> AgeCap]]
    /\ velIdxIn = 0
    /\ frames = 0
    /\ effect = "looping"
    /\ animationFrameId = 1
    /\ brushInfo = [pos |-> <<0, 0>>, delta |-> <<0, 0>>, isDown |-> FALSE]
    /\ brushParams = [pos |-> <<0, 0>>, delta |-> <<0, 0>>,
                      radius |-> Trunc(simWidth * Unit, 10),
                      forceScale |-> ForceScaleTenths,
                      inkAmount |-> InkAmountHundredths]
    /\ frameDown = FALSE
    /\ twin = NoTwin
    /\ hook = NoHook
    /\ concrete = TRUE
    /\ \E v \in GridSamples :
          field = [t \in SimTextures |->
                     IF t = velTex[1] THEN v ELSE ZeroField]

NextGrid == DispatchDiffuse

SpecGrid == InitGrid /\ [][NextGrid]_vars

\* the four axis-adjacent cells of c in the order left, up, right, down,
\* each replaced by c itself where it would leave the grid
AdjacentOrSelf(c) ==
    <<IF c[1] = 0 THEN c ELSE <<c[1] - 1, c[2]>>,
      IF c[2] = 0 THEN c ELSE <<c[1], c[2] - 1>>,
      IF c[1] = simWidth - 1 THEN c ELSE <<c[1] + 1, c[2]>>,
      IF c[2] = simHeight - 1 THEN c ELSE <<c[1], c[2] + 1>>>>

IsInterior(c) ==
    /\ 0 < c[1] /\ c[1] < simWidth - 1
    /\ 0 < c[2] /\ c[2] < simHeight - 1

\* C28: for every cell of the grid getNeighbors gives four cells of the grid,
\* in the order left, up, right, down: the axis-adjacent cell where there is
\* one and the cell itself at a grid edge (the four adjacent cells for an
\* interior cell); a Diffuse dispatch stores at every cell the relaxation of
\* the texels at exactly those four cells.
C28_NeighborsClamped ==
    /\ \A c \in Cells :
          LET n == getNeighbors(c, textureDimensions)
          IN /\ DOMAIN n = 1 .. 4
             /\ \A i \in 1 .. 4 : n[i] \in Cells
             /\ n = AdjacentOrSelf(c)
             /\ IsInterior(c) =>
                   n = <<<<c[1] - 1, c[2]>>, <<c[1], c[2] - 1>>,
                         <<c[1] + 1, c[2]>>, <<c[1], c[2] + 1>>>>
    /\ (concrete /\ LastStage = "Diffuse") =>
          LET src == field[velTex[(1 - velIdx) + 1]]
              dst == field[velTex[velIdx + 1]]
          IN \A c \in Cells : \A ch \in 1 .. 2 :
                dst[c][ch] =
                   DiffuseChannel(src[AdjacentOrSelf(c)[1]][ch]
                                    + src[AdjacentOrSelf(c)[2]][ch]
                                    + src[AdjacentOrSelf(c)[3]][ch]
                                    + src[AdjacentOrSelf(c)[4]][ch],
                                  src[c][ch])

\* a 4 x 4 grid with interior cells after a Diffuse dispatch that changed
\* the field, and a grid one cell wide
C28_Witness ==
    /\ concrete
    /\ LastStage = "Diffuse"
    /\ simWidth = 4
    /\ \E c \in Cells : IsInterior(c)
    /\ \E c \in Cells : getNeighbors(c, textureDimensions)[3] = c
    /\ field[velTex[1]] # field[velTex[2]]
    /\ field[velTex[velIdx + 1]] # ZeroField

(***************************************************************************)
(* The sampling coordinate of Advect and AdvectScalar.                     *)
(***************************************************************************)
\* the back-traced coordinate of cell c leaves [-0.5, dim - 0.5]
LeavesField(c, v) ==
    \/ BackTrace(c, v)[1] < -(Unit \div 2)
    \/ BackTrace(c, v)[1] > Unit * simWidth - (Unit \div 2)
    \/ BackTrace(c, v)[2] < -(Unit \div 2)
    \/ BackTrace(c, v)[2] > Unit * simHeight - (Unit \div 2)

\* C29: for every cell and every velocity a velocity texture holds, the
\* clamped back-traced coordinate lies in [-0.5, dim - 0.5] on each axis
\* (and is the back-traced coordinate itself when that lies inside), the
\* normalised coordinate lies in [0, 1], and the texel-space position the
\* sampler derives from it lies in [-0.5, dim - 0.5].
C29_SampleCoordinateInsideField ==
    concrete =>
        \A t \in VelTextures : \A c \in Cells :
            LET old == BackTrace(c, field[t][c])
                cl == ClampCoords(old)
                uv == NormalizeCoords(cl)
                dim == <<simWidth, simHeight>>
            IN \A a \in 1 .. 2 :
                  /\ -(Unit \div 2) <= cl[a]
                  /\ cl[a] <= Unit * dim[a] - (Unit \div 2)
                  /\ ~LeavesField(c, field[t][c]) => cl[a] = old[a]
                  /\ uv[a].den > 0
                  /\ 0 <= uv[a].num
                  /\ uv[a].num <= uv[a].den
                  /\ LET px == (uv[a].num * dim[a] * Unit) \div uv[a].den
                                 - (Unit \div 2)
                     IN /\ -(Unit \div 2) <= px
                        /\ px <= Unit * dim[a] - (Unit \div 2)

\* Advect has run on a velocity texture in which some cell's back-traced
\* coordinate leaves the field and another one's stays inside
C29_Witness ==
    /\ concrete
    /\ LastStage = "Advect"
    /\ \E n \in Entries("Advect") : \E t \in trace[n].reads :
          /\ \E c \in Cells : LeavesField(c, field[t][c])
          /\ \E c \in Cells :
                /\ ~LeavesField(c, field[t][c])
                /\ field[t][c] # ZeroTexel

(***************************************************************************)
(* The fluid at rest: every texture starts zeroed, as createScene leaves   *)
(* them, and no touch arrives.                                             *)
(***************************************************************************)
InitRest ==
    /\ InitCommon
    /\ InitBrushUp
    /\ twin = NoTwin
    /\ hook = NoHook
    /\ concrete = TRUE
    /\ field = [t \in SimTextures |-> ZeroField]

NextRest_WithTouch ==
    \/ Frame
    \/ \E v \in BOOLEAN : handleBoundaryToggle(v)
    \/ \E t \in FieldTouchPoints : handleMove(t)

\* the frame of the else branch: brushInfo keeps isDown false
NextRest ==
    \/ LoopStart
    \/ ResetVelocity
    \/ DispatchAdvect
    \/ DispatchDiffuse
    \/ DispatchDivergence
    \/ ResetPressure
    \/ DispatchPressure
    \/ DispatchProject
    \/ DispatchAdvectInk
    \/ Render
    \/ \E v \in BOOLEAN : handleBoundaryToggle(v)

SpecRest == InitRest /\ [][NextRest]_vars

sceneVars == <<pc, iter, velIdx, inkIdx, pIdx, brushInfo, showField,
               enableBoundary, canvasSize, jacobiIter, simParams, brushParams,
               trace, prov, frameDown, velIdxIn, frames, concrete, field,
               effect, twin>>

\* the callbacks left by: if (animationFrameId.current)
\* cancelAnimationFrame(animationFrameId.current)
Cleanup(pending) ==
    IF animationFrameId # 0
    THEN {q \in pending : q.id # animationFrameId}
    ELSE pending

LastRun == Len(hook.status)

\* the component mounts, or a dependency of the effect changes while it is
\* mounted: the cleanup of the run before, then the effect body up to its
\* first await
RunEffect(deviceReady) ==
    /\ hook.mounted \/ hook.status = <<>>
    /\ LastRun < MaxRuns
    /\ hook' = [hook EXCEPT
                  !.mounted = TRUE,
                  !.status = Append(@, IF deviceReady THEN "constructing"
                                       ELSE "returned"),
                  !.cleaned = IF LastRun > 0 THEN @ \cup {LastRun} ELSE @,
                  !.pending = IF LastRun > 0 THEN Cleanup(@) ELSE @]
    /\ UNCHANGED <<animationFrameId, sceneVars>>

\* the component unmounts: the cleanup of the last run
Unmount ==
    /\ hook.mounted
    /\ hook' = [hook EXCEPT !.mounted = FALSE,
                            !.cleaned = @ \cup {LastRun},
                            !.pending = Cleanup(@)]
    /\ UNCHANGED <<animationFrameId, sceneVars>>

\* renderScene = await r, then the first requestAnimationFrame(render)
SceneSettled(r, ok) ==
    /\ r \in 1 .. LastRun
    /\ hook.status[r] = "constructing"
    /\ hook.nextId <= MaxIds
    /\ IF ok
       THEN /\ hook' = [hook EXCEPT
                          !.status[r] = "looping",
                          !.pending = @ \cup {[id |-> hook.nextId, run |-> r]},
                          !.nextId = @ + 1]
            /\ animationFrameId' = hook.nextId
       ELSE /\ hook' = [hook EXCEPT !.status[r] = "failed"]
            /\ UNCHANGED animationFrameId
    /\ UNCHANGED sceneVars

\* render: renderScene(timestamp); context.present();
\* animationFrameId.current = requestAnimationFrame(render)
AnimationFrame(q) ==
    /\ q \in hook.pending
    /\ hook.nextId <= MaxIds
    /\ hook' = [hook EXCEPT
                  !.pending = (@ \ {q}) \cup {[id |-> hook.nextId, run |-> q.run]},
                  !.nextId = @ + 1,
                  !.late = IF q.run \in hook.cleaned THEN @ \cup {q.run} ELSE @]
    /\ animationFrameId' = hook.nextId
    /\ UNCHANGED sceneVars

InitHook ==
    /\ InitLoop
    /\ canvasSize = NoSize
    /\ effect = "mounted"
    /\ animationFrameId = 0
    /\ InitBrushUp
    /\ twin = NoTwin
    /\ hook = NoHook
    /\ concrete = FALSE
    /\ field = [t \in SimTextures |-> ZeroField]

NextHook ==
    \/ \E deviceReady \in BOOLEAN : RunEffect(deviceReady)
    \/ Unmount
    \/ \E r \in 1 .. MaxRuns, ok \in BOOLEAN : SceneSettled(r, ok)
    \/ \E id \in 1 .. MaxIds, r \in 1 .. MaxRuns :
          AnimationFrame([id |-> id, run |-> r])

SpecHook == InitHook /\ [][NextHook]_vars

\* C23: no run's scene is rendered after the cleanup of that run.
C23_NoRenderAfterCleanup == hook.late = {}

\* C24: at most one run of the effect has an animation-frame callback
\* outstanding, so the renders of two runs never alternate.
C24_OneRenderLoop ==
    Cardinality({q.run : q \in hook.pending}) <= 1

====
